---- MODULE Spec2Model ----
(***************************************************************************)
(* Model of the notebook-to-pdf scripts:                                   *)
(*   notebook_to_pdf_toc.py  (title page + table of contents variant)      *)
(*   notebook_to_pdf.py      (basic variant)                               *)
(*                                                                         *)
(* Part 1 models the markup post-processing (extract_headings,             *)
(* generate_toc) on character sequences.  Part 2 models the conversion     *)
(* run of both variants step by step, with the file system, the browser    *)
(* and the outcomes of the external collaborators as nondeterminism.       *)
(***************************************************************************)
EXTENDS Integers, Sequences, FiniteSets, TLC

(***************************************************************************)
(* Bounds of the model.                                                    *)
(***************************************************************************)
MaxHeadings == 3
MaxExtractions == 2

(***************************************************************************)
(* Characters.  A string of the program is a sequence of one-character     *)
(* strings; the two permalink glyphs are named.                            *)
(***************************************************************************)
Pilcrow == "<pilcrow>"
SectionMark == "<section>"

UpperCase == {"A", "B"}
LowerCase == {"a", "b"}
Digits == {"0", "1", "2", "3", "4", "5", "6", "7", "8", "9"}
Whitespace == {" "}

\* str.lower() on one character
Lower(c) == IF c = "A" THEN "a" ELSE IF c = "B" THEN "b" ELSE c

\* the regular-expression class \w
IsWord(c) == c \in UpperCase \cup LowerCase \cup Digits \cup {"_"}

\* the regular-expression class \s
IsSpace(c) == c \in Whitespace

RECURSIVE LStrip(_)
LStrip(s) == IF s # <<>> /\ IsSpace(Head(s)) THEN LStrip(Tail(s)) ELSE s

RECURSIVE RStrip(_)
RStrip(s) ==
    IF s # <<>> /\ IsSpace(s[Len(s)]) THEN RStrip(SubSeq(s, 1, Len(s) - 1)) ELSE s

\* str.strip()
Strip(s) == RStrip(LStrip(s))

RECURSIVE Remove(_, _)
\* str.replace(c, '')
Remove(s, c) ==
    IF s = <<>> THEN <<>>
    ELSE (IF Head(s) = c THEN <<>> ELSE <<Head(s)>>) \o Remove(Tail(s), c)

\* tag.get_text().strip().replace(pilcrow, '').replace(section, '').strip()
HeadingText(raw) == Strip(Remove(Remove(Strip(raw), Pilcrow), SectionMark))

RECURSIVE LowerAll(_)
\* str.lower()
LowerAll(s) == IF s = <<>> THEN <<>> ELSE <<Lower(Head(s))>> \o LowerAll(Tail(s))

RECURSIVE RemoveNonSlug(_)
\* re.sub(r'[^\w\s-]', '', s)
RemoveNonSlug(s) ==
    IF s = <<>> THEN <<>>
    ELSE (IF IsWord(Head(s)) \/ IsSpace(Head(s)) \/ Head(s) = "-"
          THEN <<Head(s)>> ELSE <<>>) \o RemoveNonSlug(Tail(s))

\* a character of the class [-\s]
IsSep(c) == c = "-" \/ IsSpace(c)

RECURSIVE DropSeps(_)
DropSeps(s) == IF s # <<>> /\ IsSep(Head(s)) THEN DropSeps(Tail(s)) ELSE s

RECURSIVE CollapseRuns(_)
\* re.sub(r'[-\s]+', '-', s): every maximal run of hyphens and whitespace
\* becomes one hyphen
CollapseRuns(s) ==
    IF s = <<>> THEN <<>>
    ELSE IF IsSep(Head(s)) THEN <<"-">> \o CollapseRuns(DropSeps(s))
         ELSE <<Head(s)>> \o CollapseRuns(Tail(s))

\* base_id of a heading text
Slug(text) == CollapseRuns(RemoveNonSlug(LowerAll(text)))

DigitChar(d) == CASE d = 0 -> "0" [] d = 1 -> "1" [] d = 2 -> "2" [] d = 3 -> "3"
                  [] d = 4 -> "4" [] d = 5 -> "5" [] d = 6 -> "6" [] d = 7 -> "7"
                  [] d = 8 -> "8" [] d = 9 -> "9"

RECURSIVE Str(_)
\* the decimal digits of a natural number, as the f-string formats it
Str(n) == IF n < 10 THEN <<DigitChar(n)>> ELSE Str(n \div 10) \o <<DigitChar(n % 10)>>

(***************************************************************************)
(* Markup.  The parsed document is the sequence of its elements in         *)
(* document order; an element has a tag name, its text and its id          *)
(* attribute (<<>> when the attribute is absent or empty: the program      *)
(* tests it with "not tag.get('id')", which does not tell them apart).     *)
(***************************************************************************)
HeadingNames == {"h1", "h2", "h3", "h4"}

\* int(tag.name[1])
Level(name) == CASE name = "h1" -> 1 [] name = "h2" -> 2 [] name = "h3" -> 3
                 [] name = "h4" -> 4 [] name = "h5" -> 5

NoId == <<>>

DefaultColor == "#41395f"

\* The elements a document is drawn from: headings of matched levels
\* without an id, over texts that share a slug ("a", "A" + permalink glyph),
\* that slugify to a suffixed form ("a 1" -> "a-1"), that lose characters
\* ("a& -b" -> "a-b"), whose slug is empty ("&") and that are empty once
\* stripped; headings that already carry an id; and a level the program
\* does not match.
InputTexts ==
    { <<"a">>,
      <<"A", Pilcrow>>,
      <<"a", " ", "1">>,
      <<"a", "&", " ", "-", "b">>,
      <<"&">>,
      <<" ", Pilcrow>> }

Tags ==
    [name : {"h1"}, text : InputTexts, id : {NoId}]
    \cup [name : {"h2"}, text : {<<"a">>, <<"a", " ", "1">>}, id : {NoId}]
    \cup [name : {"h4"}, text : {<<"a", " ", "1">>}, id : {<<"a">>, <<"X">>}]
    \cup [name : {"h4"}, text : {<<" ", Pilcrow>>}, id : {<<"a">>}]
    \cup [name : {"h5"}, text : {<<"a">>}, id : {NoId}]

VARIABLES
    soup,           \* the parsed document: its elements in document order
    headings,       \* the Heading Records of the last extract_headings call
    toc,            \* <<>> or <<links>>: the fragment generate_toc built
    source,         \* the document as it was parsed (never changes)
    prevSoup,       \* the document before the last extract_headings call
    prevHeadings,   \* the records of the call before the last one
    extractions     \* how many times extract_headings ran

hvars == <<soup, headings, toc, source, prevSoup, prevHeadings, extractions>>

\* The conversion runs.  Every variable but files and foreign is a function
\* of the run; DOMAIN pc is the set of runs.
VARIABLES
    variant,        \* "toc" (notebook_to_pdf_toc.py) or "basic" (notebook_to_pdf.py)
    notebook,       \* the source path of the run
    pc,             \* the step the run is at
    cause,          \* the exception propagating in the run, or NoCause
    files,          \* the directory: path -> who created the file
    converterRuns,  \* how many times the run invoked the external converter
    converterExit,  \* "none", "zero" or "nonzero"
    htmlRead,       \* the run has read the converter output
    browser,        \* "none", "open" or "closed"
    typeset,        \* "none", "done", "skipped" (no typesetPromise) or "failed"
    warned,         \* the MathJax warning was printed
    waits,          \* the delays waited on the page, in order (ms)
    pdf,            \* "none", "written" or "failed": the outcome of page.pdf
    foreign         \* accesses of a run to a temporary file another run created

rvars == <<variant, notebook, pc, cause, files, converterRuns, converterExit,
           htmlRead, browser, typeset, warned, waits, pdf, foreign>>

vars == <<hvars, rvars>>

RECURSIVE OverwriteLoop(_, _, _, _)
\* extract_headings without the test of an existing id: every matched
\* heading gets the slug-derived id
OverwriteLoop(doc, i, found, heading_counter) ==
    IF i > Len(doc) THEN [soup |-> doc, headings |-> found]
    ELSE
      LET tag == doc[i]
          text == HeadingText(tag.text)
      IN  IF tag.name \notin HeadingNames \/ text = <<>>
          THEN OverwriteLoop(doc, i + 1, found, heading_counter)
          ELSE
            LET base_id == Slug(text)
                seen == base_id \in DOMAIN heading_counter
                count == IF seen THEN heading_counter[base_id] + 1 ELSE 0
                counter2 == [b \in DOMAIN heading_counter \cup {base_id} |->
                                IF b = base_id THEN count ELSE heading_counter[b]]
                slug_id == IF seen THEN base_id \o <<"-">> \o Str(count) ELSE base_id
                rec == [level |-> Level(tag.name), text |-> text, id |-> slug_id]
            IN  OverwriteLoop([doc EXCEPT ![i] = [tag EXCEPT !.id = slug_id]],
                              i + 1, Append(found, rec), counter2)

extract_headings_overwriting(doc) == OverwriteLoop(doc, 1, <<>>, <<>>)

RECURSIVE ExtractLoop(_, _, _, _)
\* the for loop of extract_headings from element i on
ExtractLoop(doc, i, found, heading_counter) ==
    IF i > Len(doc) THEN [soup |-> doc, headings |-> found]
    ELSE
      LET tag == doc[i]
          text == HeadingText(tag.text)
      IN  IF tag.name \notin HeadingNames \/ text = <<>>
          THEN ExtractLoop(doc, i + 1, found, heading_counter)
          ELSE
            LET base_id == Slug(text)
                seen == base_id \in DOMAIN heading_counter
                count == IF seen THEN heading_counter[base_id] + 1 ELSE 0
                counter2 == [b \in DOMAIN heading_counter \cup {base_id} |->
                                IF b = base_id THEN count ELSE heading_counter[b]]
                slug_id == IF seen THEN base_id \o <<"-">> \o Str(count) ELSE base_id
                anchor_id == IF tag.id = NoId THEN slug_id ELSE tag.id
                tag2 == [tag EXCEPT !.id = anchor_id]
                rec == [level |-> Level(tag.name), text |-> text, id |-> anchor_id]
            IN  ExtractLoop([doc EXCEPT ![i] = tag2], i + 1,
                            Append(found, rec), counter2)

\* extract_headings(soup): the records, and the document with the ids it set
extract_headings(doc) == ExtractLoop(doc, 1, <<>>, <<>>)

\* one <div><a href=...> entry of the table of contents
TocEntry(heading, color) ==
    LET level == heading.level
    IN  [ indent |-> (level - 1) * 25,
          href |-> <<"#">> \o heading.id,
          color |-> color,
          font_size |-> CASE level = 1 -> "1.1em" [] level = 2 -> "1.05em"
                          [] level = 3 -> "1em" [] OTHER -> "0.95em",
          font_weight |-> CASE level = 1 -> "bold" [] level = 2 -> "600"
                            [] OTHER -> "normal",
          text |-> heading.text ]

\* generate_toc that leaves out the last record
generate_toc_short(hs, color) ==
    [i \in 1..(IF Len(hs) = 0 THEN 0 ELSE Len(hs) - 1) |-> TocEntry(hs[i], color)]

\* generate_toc(headings, color): the links of the fragment, in order
generate_toc(hs, color) == [i \in 1..Len(hs) |-> TocEntry(hs[i], color)]

(***************************************************************************)
(* Post-processing of one document: the document is parsed, then           *)
(* extract_headings runs on it (and may run again on the document it       *)
(* left), and generate_toc builds the fragment from the records.           *)
(***************************************************************************)
Markups == UNION {[1..n -> Tags] : n \in 0..MaxHeadings}

\* ids already in the document are pairwise distinct, as HTML requires
ValidIds(doc) ==
    \A i, j \in 1..Len(doc) : (i # j /\ doc[i].id # NoId) => doc[i].id # doc[j].id

NoRuns ==
    /\ variant = <<>> /\ notebook = <<>> /\ pc = <<>> /\ cause = <<>>
    /\ files = <<>> /\ converterRuns = <<>> /\ converterExit = <<>>
    /\ htmlRead = <<>> /\ browser = <<>> /\ typeset = <<>> /\ warned = <<>>
    /\ waits = <<>> /\ pdf = <<>> /\ foreign = {}

InitHeadings ==
    /\ NoRuns
    /\ soup \in {doc \in Markups : ValidIds(doc)}
    /\ source = soup
    /\ prevSoup = soup
    /\ headings = <<>>
    /\ prevHeadings = <<>>
    /\ toc = <<>>
    /\ extractions = 0

Extract ==
    /\ extractions < MaxExtractions
    /\ toc = <<>>
    /\ LET r == extract_headings(soup)
       IN  /\ soup' = r.soup
           /\ headings' = r.headings
    /\ prevSoup' = soup
    /\ prevHeadings' = headings
    /\ extractions' = extractions + 1
    /\ UNCHANGED <<toc, source, rvars>>

GenerateToc ==
    /\ extractions > 0
    /\ toc = <<>>
    /\ toc' = <<generate_toc(headings, DefaultColor)>>
    /\ UNCHANGED <<soup, headings, source, prevSoup, prevHeadings, extractions, rvars>>

NextHeadings == Extract \/ GenerateToc

SpecHeadings == InitHeadings /\ [][NextHeadings]_vars

(***************************************************************************)
(* Properties of the post-processing.                                      *)
(***************************************************************************)
\* a heading element the extractor reports: level 1-4, text not empty
\* once the permalink glyphs and the surrounding whitespace are stripped
Reported(tag) == tag.name \in HeadingNames /\ HeadingText(tag.text) # <<>>

\* the position, among the records, of the record of element i
RecordOf(i) == Cardinality({j \in 1..i : Reported(source[j])})

\* C1: the anchor ids of the records extract_headings returns are pairwise
\* distinct.
C1_AnchorIdsDistinct ==
    extractions > 0 =>
        \A i, j \in 1..Len(headings) : i # j => headings[i].id # headings[j].id

\* C9: an id a heading already carries is registered as used: no later
\* heading that had no id is assigned that same id.
C9_ExistingIdSkipped ==
    extractions > 0 =>
        \A i, j \in 1..Len(source) :
            ( /\ i < j
              /\ Reported(source[i]) /\ source[i].id # NoId
              /\ Reported(source[j]) /\ source[j].id = NoId )
            => soup[j].id # source[i].id

\* C6: the fragment holds exactly one link per reported heading element of
\* the source markup, in document order, the i-th link's href being "#"
\* followed by the i-th record's anchor id (no heading: no link).
C6_TocLinks ==
    toc # <<>> =>
        LET links == toc[1]
            reported == SelectSeq(source, Reported)
        IN  /\ Len(links) = Len(reported)
            /\ Len(links) = Len(headings)
            /\ \A i \in 1..Len(links) :
                  /\ links[i].href = <<"#">> \o headings[i].id
                  /\ links[i].text = HeadingText(reported[i].text)
                  /\ headings[i].level = Level(reported[i].name)

\* C6 happens: a fragment of two links built from a document of three
\* elements, one of which is not reported
C6_Witness ==
    /\ toc # <<>>
    /\ Len(toc[1]) = 2
    /\ Len(source) = 3
    /\ toc[1][1].href # toc[1][2].href

\* C7: a second extraction on the markup the first one left changes no id
\* and returns the same records; an id present before the extraction is
\* never modified and is the anchor id reported for its heading.
C7_Idempotent ==
    /\ extractions >= 2 => (soup = prevSoup /\ headings = prevHeadings)
    /\ extractions >= 1 =>
          \A i \in 1..Len(source) :
              source[i].id # NoId =>
                  /\ soup[i].id = source[i].id
                  /\ Reported(source[i]) => headings[RecordOf(i)].id = source[i].id

\* C7 happens: two extractions ran on a document with a reported heading
\* that had an id and one that got its id from the first extraction
C7_Witness ==
    /\ extractions = 2
    /\ soup # source
    /\ \E i \in 1..Len(source) : Reported(source[i]) /\ source[i].id # NoId


(***************************************************************************)
(* Part 2: the conversion run.                                             *)
(*                                                                         *)
(* Paths.  All files are in one directory; a path is its stem (the parts   *)
(* of the name before the last suffix) and its suffix.                     *)
(***************************************************************************)
Sources ==
    [stem : {<<"a">>, <<"a", "_toc">>, <<"a", "_mathjax">>, <<"b">>},
     suffix : {".ipynb"}]

\* Path.with_suffix
with_suffix(path, suffix) == [path EXCEPT !.suffix = suffix]

\* html_path = notebook_path.with_suffix('.html')
HtmlPath(r) == with_suffix(notebook[r], ".html")

\* temp_html = html_path.parent / f"{html_path.stem}_toc.html"  (toc variant)
\* temp_html = html_path.parent / f"{html_path.stem}_mathjax.html"  (basic)
TempPath(r) ==
    [stem |-> Append(HtmlPath(r).stem,
                     IF variant[r] = "toc" THEN "_toc" ELSE "_mathjax"),
     suffix |-> ".html"]

\* Path.exists
Exists(path) == path \in DOMAIN files

\* the directory after path was written by who
Put(fs, path, who) ==
    [q \in DOMAIN fs \cup {path} |-> IF q = path THEN who ELSE fs[q]]

\* the directory after Path.unlink of path
Del(fs, path) == [q \in DOMAIN fs \ {path} |-> fs[q]]

\* what the access op of run r to path adds to foreign: something only when
\* the file is there and another run created it
Access(r, op, path) ==
    IF Exists(path) /\ files[path] \in DOMAIN pc \ {r}
    THEN {[run |-> r, op |-> op, path |-> path, creator |-> files[path]]}
    ELSE {}

\* The delays of the typesetting step, in milliseconds
ReadyTimeout == 15000
GraceDelay == 2000
SettleDelay == 3000
FallbackDelay == 5000

NoCause == "none"
Terminal == {"Done", "Failed"}

InitRuns(R) ==
    /\ variant \in [R -> {"toc", "basic"}]
    /\ notebook \in {n \in [R -> Sources] : \A r1, r2 \in R : r1 # r2 => n[r1] # n[r2]}
    /\ files \in {[q \in S |-> "user"] : S \in SUBSET {notebook[r] : r \in R}}
    /\ pc = [r \in R |-> "Idle"]
    /\ cause = [r \in R |-> NoCause]
    /\ converterRuns = [r \in R |-> 0]
    /\ converterExit = [r \in R |-> "none"]
    /\ htmlRead = [r \in R |-> FALSE]
    /\ browser = [r \in R |-> "none"]
    /\ typeset = [r \in R |-> "none"]
    /\ warned = [r \in R |-> FALSE]
    /\ waits = [r \in R |-> <<>>]
    /\ pdf = [r \in R |-> "none"]
    /\ foreign = {}

NoHeadings ==
    /\ soup = <<>> /\ source = <<>> /\ prevSoup = <<>> /\ headings = <<>>
    /\ prevHeadings = <<>> /\ toc = <<>> /\ extractions = 0

\* one conversion
Init == NoHeadings /\ InitRuns({"run1"})

\* two conversions of distinct source paths, run as independent processes
InitConcurrent == NoHeadings /\ InitRuns({"run1", "run2"})

\* the run raises: the exception propagates from position `to` on
Raise(r, what, to) ==
    /\ cause' = [cause EXCEPT ![r] = what]
    /\ pc' = [pc EXCEPT ![r] = to]

Goto(r, to) ==
    /\ pc' = [pc EXCEPT ![r] = to]
    /\ UNCHANGED cause

\* main: the source must exist, or the process exits with status 1
Start(r) ==
    /\ pc[r] = "Idle"
    /\ IF Exists(notebook[r])
       THEN Goto(r, "Converting")
       ELSE Raise(r, "not found", "Failed")
    /\ UNCHANGED <<files, converterRuns, converterExit, htmlRead, browser,
                   typeset, warned, waits, pdf, foreign, variant, notebook, hvars>>

\* subprocess.run without check=True: a non-zero exit is ignored
ConvertUnchecked(r) ==
    /\ pc[r] = "Converting"
    /\ converterRuns' = [converterRuns EXCEPT ![r] = @ + 1]
    /\ \E exit \in {"zero", "nonzero"} :
         /\ converterExit' = [converterExit EXCEPT ![r] = exit]
         /\ files' = IF exit = "zero" THEN Put(files, HtmlPath(r), r) ELSE files
         /\ foreign' = IF exit = "zero"
                       THEN foreign \cup Access(r, "overwrite", HtmlPath(r))
                       ELSE foreign
         /\ Goto(r, "Reading")
    /\ UNCHANGED <<htmlRead, browser, typeset, warned, waits, pdf,
                   variant, notebook, hvars>>

\* subprocess.run([... 'nbconvert', '--to', 'html', notebook], check=True):
\* the converter writes the same-stem .html file, or exits non-zero and
\* CalledProcessError propagates to the caller of main
Convert(r) ==
    /\ pc[r] = "Converting"
    /\ converterRuns' = [converterRuns EXCEPT ![r] = @ + 1]
    /\ \E exit \in {"zero", "nonzero"} :
         /\ converterExit' = [converterExit EXCEPT ![r] = exit]
         /\ IF exit = "zero"
            THEN /\ files' = Put(files, HtmlPath(r), r)
                 /\ foreign' = foreign \cup Access(r, "overwrite", HtmlPath(r))
                 /\ Goto(r, "Reading")
            ELSE /\ Raise(r, "CalledProcessError", "Failed")
                 /\ UNCHANGED <<files, foreign>>
    /\ UNCHANGED <<htmlRead, browser, typeset, warned, waits, pdf,
                   variant, notebook, hvars>>

\* open(html_path, 'r') and f.read(): outside every try block, so an error
\* propagates with nothing cleaned up
ReadHtml(r) ==
    /\ pc[r] = "Reading"
    /\ \E ok \in BOOLEAN :
         IF ok /\ Exists(HtmlPath(r))
         THEN /\ htmlRead' = [htmlRead EXCEPT ![r] = TRUE]
              /\ foreign' = foreign \cup Access(r, "read", HtmlPath(r))
              /\ Goto(r, IF variant[r] = "toc" THEN "Extracting" ELSE "Augmenting")
         ELSE /\ Raise(r, "read error", "Failed")
              /\ UNCHANGED <<htmlRead, foreign>>
    /\ UNCHANGED <<files, converterRuns, converterExit, browser, typeset,
                   warned, waits, pdf, variant, notebook, hvars>>

\* toc variant: extract_headings, generate_title_page, generate_toc and the
\* insertion into the body, all in memory (Part 1 models their result)
BuildToc(r) ==
    /\ pc[r] = "Extracting"
    /\ Goto(r, "Augmenting")
    /\ UNCHANGED <<files, converterRuns, converterExit, htmlRead, browser,
                   typeset, warned, waits, pdf, foreign, variant, notebook, hvars>>

\* the MathJax configuration is put before </head> and the document is
\* written to temp_html: open(temp_html, 'w') creates the file, f.write fills
\* it; either may raise, outside every try block
WriteTemp(r) ==
    /\ pc[r] = "Augmenting"
    /\ \E outcome \in {"written", "open failed", "write failed"} :
         /\ IF outcome = "open failed"
            THEN UNCHANGED <<files, foreign>>
            ELSE /\ files' = Put(files, TempPath(r), r)
                 /\ foreign' = foreign \cup Access(r, "overwrite", TempPath(r))
         /\ IF outcome = "written"
            THEN Goto(r, "Launching")
            ELSE Raise(r, "write error", "Failed")
    /\ UNCHANGED <<converterRuns, converterExit, htmlRead, browser, typeset,
                   warned, waits, pdf, variant, notebook, hvars>>

\* try: async with async_playwright(): p.chromium.launch, browser.new_page
Launch(r) ==
    /\ pc[r] = "Launching"
    /\ \E ok \in BOOLEAN :
         IF ok
         THEN /\ browser' = [browser EXCEPT ![r] = "open"]
              /\ Goto(r, "Navigating")
         ELSE /\ Raise(r, "launch error", "CleanTemp")
              /\ UNCHANGED browser
    /\ UNCHANGED <<files, converterRuns, converterExit, htmlRead, typeset,
                   warned, waits, pdf, foreign, variant, notebook, hvars>>

\* page.goto(file://temp_html, wait_until='networkidle'); on an error the
\* playwright context is left and the browser goes with it
Navigate(r) ==
    /\ pc[r] = "Navigating"
    /\ \E ok \in BOOLEAN :
         IF ok /\ Exists(TempPath(r))
         THEN /\ foreign' = foreign \cup Access(r, "read", TempPath(r))
              /\ Goto(r, "Typesetting")
              /\ UNCHANGED browser
         ELSE /\ Raise(r, "navigation error", "CleanTemp")
              /\ browser' = [browser EXCEPT ![r] = "closed"]
              /\ UNCHANGED foreign
    /\ UNCHANGED <<files, converterRuns, converterExit, htmlRead, typeset,
                   warned, waits, pdf, variant, notebook, hvars>>

\* the inner try block: wait_for_function(MathJax defined, timeout=15000),
\* wait 2000, evaluate (await MathJax.typesetPromise() if the engine has
\* it), wait 3000.  The wait may time out and the evaluation may raise:
\* both are caught by "except Exception".
Typeset(r) ==
    /\ pc[r] = "Typesetting"
    /\ \E outcome \in {"typeset", "no typesetPromise", "timeout", "evaluate error"} :
         /\ typeset' = [typeset EXCEPT ![r] =
                          CASE outcome = "typeset" -> "done"
                            [] outcome = "no typesetPromise" -> "skipped"
                            [] OTHER -> "failed"]
         /\ waits' = [waits EXCEPT ![r] =
                          CASE outcome = "timeout" -> <<ReadyTimeout>>
                            [] outcome = "evaluate error" -> <<GraceDelay>>
                            [] OTHER -> <<GraceDelay, SettleDelay>>]
         /\ Goto(r, IF outcome \in {"timeout", "evaluate error"}
                    THEN "Fallback" ELSE "Capturing")
    /\ UNCHANGED <<files, converterRuns, converterExit, htmlRead, browser,
                   warned, pdf, foreign, variant, notebook, hvars>>

\* an except branch that prints the warning and goes on at once
FallbackNoDelay(r) ==
    /\ pc[r] = "Fallback"
    /\ warned' = [warned EXCEPT ![r] = TRUE]
    /\ Goto(r, "Capturing")
    /\ UNCHANGED <<files, converterRuns, converterExit, htmlRead, browser,
                   typeset, waits, pdf, foreign, variant, notebook, hvars>>

\* except Exception: print the warning, wait_for_timeout(5000)
Fallback(r) ==
    /\ pc[r] = "Fallback"
    /\ warned' = [warned EXCEPT ![r] = TRUE]
    /\ waits' = [waits EXCEPT ![r] = Append(@, FallbackDelay)]
    /\ Goto(r, "Capturing")
    /\ UNCHANGED <<files, converterRuns, converterExit, htmlRead, browser,
                   typeset, pdf, foreign, variant, notebook, hvars>>

\* page.pdf(path=pdf_path, format='A4', ...) and browser.close(); on an
\* error the playwright context is left and the browser goes with it
Capture(r) ==
    /\ pc[r] = "Capturing"
    /\ browser' = [browser EXCEPT ![r] = "closed"]
    /\ \E ok \in BOOLEAN :
         IF ok
         THEN /\ pdf' = [pdf EXCEPT ![r] = "written"]
              /\ Goto(r, "CleanTemp")
         ELSE /\ pdf' = [pdf EXCEPT ![r] = "failed"]
              /\ Raise(r, "capture error", "CleanTemp")
    /\ UNCHANGED <<files, converterRuns, converterExit, htmlRead, typeset,
                   warned, waits, foreign, variant, notebook, hvars>>

\* finally: if temp_html.exists(): temp_html.unlink().  An error of unlink
\* replaces the exception in flight and leaves the finally block.  After
\* the block, the toc variant goes on to html_path (same finally block);
\* the basic variant returns to main, or propagates its exception past
\* main's html_path.unlink().
CleanTemp(r) ==
    /\ pc[r] = "CleanTemp"
    /\ \E ok \in BOOLEAN :
         IF Exists(TempPath(r)) /\ ~ok
         THEN /\ Raise(r, "delete error", "Failed")
              /\ UNCHANGED <<files, foreign>>
         ELSE /\ files' = Del(files, TempPath(r))
              /\ foreign' = foreign \cup Access(r, "delete", TempPath(r))
              /\ Goto(r, IF variant[r] = "toc" \/ cause[r] = NoCause
                         THEN "CleanHtml" ELSE "Failed")
    /\ UNCHANGED <<converterRuns, converterExit, htmlRead, browser, typeset,
                   warned, waits, pdf, variant, notebook, hvars>>

\* toc variant: if html_path.exists(): html_path.unlink(), still in the
\* finally block.  basic variant: main's html_path.unlink(), with no test
\* that the file is there.  An error of unlink propagates.
CleanHtml(r) ==
    /\ pc[r] = "CleanHtml"
    /\ \E ok \in BOOLEAN :
         IF Exists(HtmlPath(r))
         THEN IF ok
              THEN /\ files' = Del(files, HtmlPath(r))
                   /\ foreign' = foreign \cup Access(r, "delete", HtmlPath(r))
                   /\ Goto(r, IF cause[r] = NoCause THEN "Done" ELSE "Failed")
              ELSE /\ Raise(r, "delete error", "Failed")
                   /\ UNCHANGED <<files, foreign>>
         ELSE /\ IF variant[r] = "toc"
                 THEN Goto(r, IF cause[r] = NoCause THEN "Done" ELSE "Failed")
                 ELSE Raise(r, "delete error", "Failed")
              /\ UNCHANGED <<files, foreign>>
    /\ UNCHANGED <<converterRuns, converterExit, htmlRead, browser, typeset,
                   warned, waits, pdf, variant, notebook, hvars>>

Next ==
    \/ \E r \in DOMAIN pc : Start(r)
    \/ \E r \in DOMAIN pc : Convert(r)
    \/ \E r \in DOMAIN pc : ReadHtml(r)
    \/ \E r \in DOMAIN pc : BuildToc(r)
    \/ \E r \in DOMAIN pc : WriteTemp(r)
    \/ \E r \in DOMAIN pc : Launch(r)
    \/ \E r \in DOMAIN pc : Navigate(r)
    \/ \E r \in DOMAIN pc : Typeset(r)
    \/ \E r \in DOMAIN pc : Fallback(r)
    \/ \E r \in DOMAIN pc : Capture(r)
    \/ \E r \in DOMAIN pc : CleanTemp(r)
    \/ \E r \in DOMAIN pc : CleanHtml(r)

Spec == Init /\ [][Next]_vars

SpecConcurrent == InitConcurrent /\ [][Next]_vars

(***************************************************************************)
(* Properties of the conversion run.                                       *)
(***************************************************************************)
\* the run has printed the warning and waited the fallback delay last
FellBack(r) ==
    /\ warned[r]
    /\ waits[r] # <<>>
    /\ waits[r][Len(waits[r])] = FallbackDelay

\* C2: once a run that got past the conversion stage has ended, in success
\* or in failure, neither the converter's HTML output nor the augmented
\* copy is on disk.
C2_NoTemporaryMarkupLeft ==
    \A r \in DOMAIN pc :
        (pc[r] \in Terminal /\ converterExit[r] = "zero")
        => (~Exists(HtmlPath(r)) /\ ~Exists(TempPath(r)))

\* C3: when the external converter exits non-zero the run is Failed with
\* that cause, the converter was invoked once, its output was never read,
\* the browser was never launched and no PDF was written.
C3_ConverterFailureIsFatal ==
    \A r \in DOMAIN pc :
        /\ converterRuns[r] <= 1
        /\ converterExit[r] = "nonzero" =>
              /\ pc[r] = "Failed"
              /\ cause[r] = "CalledProcessError"
              /\ converterRuns[r] = 1
              /\ ~htmlRead[r]
              /\ browser[r] = "none"
              /\ pdf[r] = "none"

\* C3 happens: the converter has exited non-zero
C3_Witness == \E r \in DOMAIN pc : converterExit[r] = "nonzero"

\* C4: when the wait for the typesetting engine times out or the script
\* evaluation raises, the warning is logged and the fallback delay waited
\* before the capture, the capture is executed, and the run ends in Done
\* provided the capture succeeded.
C4_TypesetFailureIsRecoverable ==
    \A r \in DOMAIN pc :
        typeset[r] = "failed" =>
            /\ pc[r] \notin {"Typesetting", "Fallback"} => FellBack(r)
            /\ pc[r] \in Terminal => pdf[r] # "none"
            /\ (pc[r] \in Terminal /\ pdf[r] = "written") => pc[r] = "Done"

\* The run of C4 fails only by an error of the final deletions: with the
\* capture done, a Failed run has a deletion error as its cause.
TypesetFailureFailsOnlyInCleaning ==
    \A r \in DOMAIN pc :
        (typeset[r] = "failed" /\ pc[r] = "Failed" /\ pdf[r] = "written")
        => cause[r] = "delete error"

\* C5 as stated: the PDF capture occurs only in a run whose typeset-all
\* operation has completed.
C5_CaptureOnlyAfterTypesetAll ==
    \A r \in DOMAIN pc : pdf[r] # "none" => typeset[r] = "done"

\* C5 amended: the PDF capture occurs only after the typesetting step has
\* ended: either the engine was ready and the script returned without error
\* (having awaited typeset-all when the engine exposes it) and the grace and
\* settle delays were waited, or the step failed, the warning was logged and
\* the fallback delay was waited.
C5_CaptureOnlyAfterTypesetStep ==
    \A r \in DOMAIN pc :
        (pc[r] = "Capturing" \/ pdf[r] # "none") =>
            \/ /\ typeset[r] \in {"done", "skipped"}
               /\ ~warned[r]
               /\ waits[r] = <<GraceDelay, SettleDelay>>
            \/ /\ typeset[r] = "failed"
               /\ FellBack(r)

\* C5 happens: a PDF was written in a run whose typesetting step failed
C5_Witness ==
    \E r \in DOMAIN pc : pdf[r] = "written" /\ typeset[r] = "failed" /\ pc[r] = "Done"

\* C8: of two concurrent conversions of distinct source paths, neither
\* reads, overwrites or deletes a temporary markup file the other created.
C8_TemporaryFilesExclusive == foreign = {}

\* C10: the cleaning step is best-effort: no run fails with a deletion
\* error as its cause, and a run whose PDF was captured ends in Done.
C10_CleaningIsBestEffort ==
    \A r \in DOMAIN pc :
        /\ cause[r] # "delete error"
        /\ (pc[r] \in Terminal /\ pdf[r] = "written") => pc[r] = "Done"

====
